---- MODULE Spec2Model ----
(***************************************************************************)
(* A model of aerox's gmsh geometry primitives (drivers/gmsh/geometry.py)  *)
(* and of the structured C-grid synthesiser built on them (cfd/mesh.py).   *)
(*                                                                         *)
(* Floating-point numbers are modelled as fixed-point integers: a float f  *)
(* is the integer f * Scale, and every division or square root is rounded  *)
(* toward zero to that resolution.  A vector whose components are not      *)
(* finite (the result of a division by zero) is the value NonFinite.       *)
(***************************************************************************)
EXTENDS Integers, Sequences, FiniteSets, TLC

VARIABLES
    Point_next_id,      \* Point._next_id, class attribute
    Curve_next_id,      \* Curve._next_id, shared by Line, Circle and Loop
    Surface_next_id,    \* Surface._next_id, class attribute
    created,            \* history: <<family, id>> of every entity constructed, in order
    pc,                 \* position of the running aerofoil_geometry call
    aerofoil,           \* argument of the running call
    config,             \* argument of the running call
    top,                \* local of aerofoil_geometry
    bottom,             \* local of aerofoil_geometry
    leading_edge,       \* local of aerofoil_geometry
    trailing_edge,      \* local of aerofoil_geometry
    far_field,          \* local of aerofoil_geometry
    returned,           \* history: the statement lists returned by the calls so far
    line,               \* a Line object on which the Line methods are exercised
    called,             \* history: the last method called on line, with its argument
    threads,            \* concurrent builds, each inside a constructor or between two
    entities            \* history: the Loops and Surfaces constructed beside line

vars == <<Point_next_id, Curve_next_id, Surface_next_id, created, pc, aerofoil, config,
          top, bottom, leading_edge, trailing_edge, far_field, returned, line, called,
          threads, entities>>

-----------------------------------------------------------------------------
(* Numbers *)

Scale == 10^4                   \* fixed-point unit: 1.0 is Scale

None == <<>>                    \* Python's None
Some(v) == <<v>>                \* a value where None is possible

NonFinite == <<>>               \* a coordinate tuple of nan/inf components
IsFinite(v) == Len(v) = 3

Abs(a) == IF a < 0 THEN -a ELSE a

\* float division a / b (b # 0), rounded toward zero; also int(a / b)
Quot(a, b) ==
    LET q == Abs(a) \div Abs(b)
    IN  IF (a < 0) # (b < 0) THEN -q ELSE q

RECURSIVE SqrtSearch(_, _, _)
SqrtSearch(n, lo, hi) ==
    IF lo >= hi THEN lo
    ELSE LET mid == (lo + hi + 1) \div 2
         IN  IF mid * mid <= n THEN SqrtSearch(n, mid, hi)
                               ELSE SqrtSearch(n, lo, mid - 1)

\* floor of the square root
ISqrt(n) == SqrtSearch(n, 0, 46340)

VSub(a, b) == <<a[1] - b[1], a[2] - b[2], a[3] - b[3]>>
VAdd(a, b) == <<a[1] + b[1], a[2] + b[2], a[3] + b[3]>>
VNeg(a) == <<-a[1], -a[2], -a[3]>>

\* np.linalg.norm of a finite 3-vector; a long vector is measured to a tenth
\* of the resolution, as a float keeps a relative precision
norm(v) ==
    IF Abs(v[1]) <= 30000 /\ Abs(v[2]) <= 30000 /\ Abs(v[3]) <= 30000
    THEN ISqrt(v[1] * v[1] + v[2] * v[2] + v[3] * v[3])
    ELSE 10 * ISqrt(Quot(v[1], 10) * Quot(v[1], 10) + Quot(v[2], 10) * Quot(v[2], 10)
                    + Quot(v[3], 10) * Quot(v[3], 10))

\* np.cross(v, [0, 0, s]) for a vector v in the plane
cross_z(v, s) == <<v[2] * s, -(v[1] * s), 0>>

-----------------------------------------------------------------------------
(* drivers/gmsh/geometry.py: the primitives.  A constructor takes the class *)
(* counters ctx = [Point, Curve, Surface, created] and returns the new      *)
(* counters and the object.                                                 *)

\* self.id = self._next_id
ReadId(counter) == counter

\* a constructor that leaves the class counter as it found it
Increment_skipped(counter) == counter

\* Cls._next_id += 1
Increment(counter) == counter + 1

Point(ctx, coordinates, grid_size) ==
    LET id == ReadId(ctx.Point)
    IN  [ctx |-> [ctx EXCEPT !.Point = Increment(@),
                             !.created = Append(@, <<"Point", id>>)],
         obj |-> [id |-> id, coordinates |-> coordinates, grid_size |-> grid_size]]

\* Point.__str__
StrPoint(p) ==
    [stmt |-> "Point", id |-> p.id, coordinates |-> p.coordinates,
     grid_size |-> p.grid_size]

\* Curve.__init__, reached through super().__init__() of Line, Circle and Loop
Curve(ctx) ==
    LET id == ReadId(ctx.Curve)
    IN  [ctx |-> [ctx EXCEPT !.Curve = Increment(@),
                             !.created = Append(@, <<"Curve", id>>)],
         id |-> id]

Line(ctx, begin, end, transfinite, progression) ==
    LET c == Curve(ctx)
    IN  [ctx |-> c.ctx,
         obj |-> [class |-> "Line", id |-> c.id, begin |-> begin, end |-> end,
                  transfinite |-> transfinite, progression |-> progression]]

\* Line.__str__
StrLine(l) ==
    [stmt |-> "Line", id |-> l.id, begin |-> l.begin.id, end |-> l.end.id,
     transfinite |-> IF l.transfinite = None THEN None
                     ELSE <<l.id, l.transfinite[1], l.progression>>]

Circle(ctx, center, begin, end, transfinite, progression) ==
    LET c == Curve(ctx)
    IN  [ctx |-> c.ctx,
         obj |-> [class |-> "Circle", id |-> c.id, center |-> center, begin |-> begin,
                  end |-> end, transfinite |-> transfinite,
                  progression |-> progression]]

\* Circle.__str__
StrCircle(c) ==
    [stmt |-> "Circle", id |-> c.id, begin |-> c.begin, center |-> c.center,
     end |-> c.end,
     transfinite |-> IF c.transfinite = None THEN None
                     ELSE <<c.id, c.transfinite[1], c.progression>>]

Loop(ctx, elements) ==
    LET c == Curve(ctx)
    IN  [ctx |-> c.ctx,
         obj |-> [class |-> "Loop", id |-> c.id, elements |-> elements]]

\* Loop.__str__
StrLoop(l) == [stmt |-> "Curve Loop", id |-> l.id, elements |-> l.elements]

Surface(ctx, elements, transfinite) ==
    LET id == ReadId(ctx.Surface)
    IN  [ctx |-> [ctx EXCEPT !.Surface = Increment(@),
                             !.created = Append(@, <<"Surface", id>>)],
         obj |-> [class |-> "Surface", id |-> id, elements |-> elements,
                  transfinite |-> transfinite]]

\* Surface.__str__
StrSurface(s) ==
    [stmt |-> "Plane Surface", id |-> s.id, elements |-> s.elements,
     transfinite |-> IF s.transfinite THEN <<s.id, s.id>> ELSE None]

PhysicalCurve(name, elements) ==
    [class |-> "PhysicalCurve", name |-> name, elements |-> elements]

PhysicalSurface(name, elements) ==
    [class |-> "PhysicalSurface", name |-> name, elements |-> elements]

\* PhysicalCurve.__str__
StrPhysicalCurve(p) ==
    [stmt |-> "Physical Curve", name |-> p.name, elements |-> p.elements]

\* PhysicalSurface.__str__
StrPhysicalSurface(p) ==
    [stmt |-> "Physical Surface", name |-> p.name, elements |-> p.elements]

\* str(component), dispatched on the object's class
Str(component) ==
    IF "class" \notin DOMAIN component THEN StrPoint(component)
    ELSE CASE component.class = "Line" -> StrLine(component)
           [] component.class = "Circle" -> StrCircle(component)
           [] component.class = "Loop" -> StrLoop(component)
           [] component.class = "Surface" -> StrSurface(component)
           [] component.class = "PhysicalCurve" -> StrPhysicalCurve(component)
           [] component.class = "PhysicalSurface" -> StrPhysicalSurface(component)

-----------------------------------------------------------------------------
(* Line.progression_from_width and Line.transfinite_from_grid_size          *)

RootDen == Scale \div 1000       \* roots of the polynomial are resolved to 1 / RootDen

OneTolerance == 0               \* 1e-5, in units of 1 / Scale, rounded toward zero

\* a ** e
RECURSIVE Pow(_, _)
Pow(a, e) == IF e = 0 THEN 1 ELSE a * Pow(a, e - 1)

\* line length l of lines 77 and 95
length_of(l) == norm(VSub(l.begin.coordinates, l.end.coordinates))

\* the coefficient list p of lines 78-81, highest degree first, every
\* coefficient in units of 1 / RootDen; ratio is l / initial_width
coefficients(n, ratio) ==
    LET p0 == [i \in 1..(n + 1) |-> 0]
        p1 == [p0 EXCEPT ![1] = RootDen]
        p2 == [p1 EXCEPT ![n] = -ratio]
    IN  [p2 EXCEPT ![n + 1] = -ratio - RootDen]

\* p(k / RootDen) * RootDen ** Len(p), exactly
RECURSIVE PolySum(_, _, _)
PolySum(p, k, i) ==
    IF i > Len(p) THEN 0
    ELSE p[i] * Pow(k, Len(p) - i) * Pow(RootDen, i - 1) + PolySum(p, k, i + 1)

PolyAt(p, k) == PolySum(p, k, 1)

\* np.roots(p), its real roots only, each rounded toward minus infinity to a
\* multiple of 1 / RootDen: k stands for a root in [k, k + 1) / RootDen.  All
\* real roots of p lie within bound (in units of 1 / RootDen) of zero.
real_roots(p, bound) ==
    {k \in (-bound)..bound :
        \/ PolyAt(p, k) = 0
        \/ /\ PolyAt(p, k) < 0
           /\ PolyAt(p, k + 1) > 0
        \/ /\ PolyAt(p, k) > 0
           /\ PolyAt(p, k + 1) < 0}

\* the values self.progression may hold when progression_from_width returns
\* (lines 75-87); np.roots fixes no order among the roots, so the first real
\* root that differs from 1 may be any of them
progression_from_width_results(self, initial_width) ==
    LET n == self.transfinite[1]
        ratio == Quot(length_of(self) * RootDen, initial_width)
        r == real_roots(coefficients(n, ratio), ratio + 2 * RootDen)
        found == {root * (Scale \div RootDen) : root \in
                    {k \in r : Abs(k * (Scale \div RootDen) - Scale) > OneTolerance}}
    IN  IF found # {} THEN found ELSE {Scale}

\* the value self.transfinite holds when transfinite_from_grid_size returns
transfinite_from_grid_size_result(self, grid_size) ==
    LET t == Quot(length_of(self), grid_size)
    IN  IF t < 2 THEN 2 ELSE t

-----------------------------------------------------------------------------
(* cfd/mesh.py.  A builder runs on an environment e: a record of the class  *)
(* counters (e.ctx) and of the builder's local variables; each statement    *)
(* that constructs an entity is an operator from environment to             *)
(* environment.                                                             *)

Last(s) == s[Len(s)]

\* name = Cls(...): the counters move on and the local holds the object
Keep(e, name, r) == [e EXCEPT !.ctx = r.ctx, ![name] = r.obj]

\* name.append(Cls(...)), or name = [..., Cls(...)]
AppendTo(e, name, r) == [e EXCEPT !.ctx = r.ctx, ![name] = Append(@, r.obj)]

-----------------------------------------------------------------------------
(* cfd/mesh.py: _half_aerofoil                                              *)

AftThreshold == 7000            \* 0.7
NoiseFloor == 10                \* 1e-3
MidRatio == 50                  \* 0.5, in hundredths
AftRatio == 95                  \* 0.95, in hundredths
ForeRatio == 5                  \* 0.05, in hundredths

Reverse(s) == [i \in 1..Len(s) |-> s[Len(s) + 1 - i]]

\* coordinates[0: i-1] + coordinates[i:], with i - 1 = k - 1 counted from zero
RemoveAt(s, k) == [j \in 1..(Len(s) - 1) |-> IF j < k THEN s[j] ELSE s[j + 1]]

\* the test of line 154 on the pair (first, second)
near_duplicate(first, second) ==
    first[1] > AftThreshold /\ Abs(second[1] - first[1]) < NoiseFloor

\* the while loop of lines 149-157; k is i counted from one, so that
\* coordinates[k] is first and coordinates[k + 1] is second
RECURSIVE collapse(_, _)
collapse(coordinates, k) ==
    IF ~(k < Len(coordinates)) THEN coordinates
    ELSE IF near_duplicate(coordinates[k], coordinates[k + 1])
         THEN collapse(RemoveAt(coordinates, k), k)
         ELSE collapse(coordinates, k + 1)

\* line 146
is_reversed(coordinates) == coordinates[1][1] > coordinates[2][1]

\* lines 144-159: the coordinates kept
preprocess(coordinates) ==
    IF is_reversed(coordinates)
    THEN Reverse(collapse(Reverse(coordinates), 1))
    ELSE collapse(coordinates, 1)

\* lines 170-174; i is the loop index of line 165
interpolation_ratio(reversed, i, len) ==
    IF reversed /\ i = 1 THEN ForeRatio
    ELSE IF ~reversed /\ i = len - 1 THEN AftRatio
    ELSE MidRatio

\* line 175
midpoint_of(first, second, ratio) ==
    <<first[1] + Quot(ratio * (second[1] - first[1]), 100),
      first[2] + Quot(ratio * (second[2] - first[2]), 100),
      0>>

\* lines 176-178 with a finite quotient on a segment of zero length: the offset
\* point falls on the midpoint
boundary_point_of_finite(midpoint, first, second, thickness) ==
    IF norm(VSub(second, first)) = 0 THEN midpoint
    ELSE <<midpoint[1] + Quot(thickness * cross_z(VSub(second, first), -1)[1],
                              norm(VSub(second, first))),
           midpoint[2] + Quot(thickness * cross_z(VSub(second, first), -1)[2],
                              norm(VSub(second, first))),
           0>>

\* lines 176-178: thickness / 0 is inf and inf * 0 is nan
boundary_point_of(midpoint, first, second, thickness) ==
    IF norm(VSub(second, first)) = 0 THEN NonFinite
    ELSE <<midpoint[1] + Quot(thickness * cross_z(VSub(second, first), -1)[1],
                              norm(VSub(second, first))),
           midpoint[2] + Quot(thickness * cross_z(VSub(second, first), -1)[2],
                              norm(VSub(second, first))),
           0>>

\* line 179
add_aerofoil_point(e, midpoint) ==
    AppendTo(e, "aerofoil_points", Point(e.ctx, midpoint, None))

\* line 180
add_boundary_point(e, boundary_point) ==
    AppendTo(e, "boundary_points", Point(e.ctx, boundary_point, None))

\* lines 166-180: one pass of the loop, on the points first and second
point_pair(e, first, second, ratio, thickness) ==
    add_boundary_point(
        add_aerofoil_point(e, midpoint_of(first, second, ratio)),
        boundary_point_of(midpoint_of(first, second, ratio), first, second, thickness))

\* the loop of lines 165-180, from index i on
RECURSIVE make_points(_, _, _, _, _)
make_points(e, coordinates, reversed, thickness, i) ==
    IF i > Len(coordinates) - 1 THEN e
    ELSE make_points(
            point_pair(e,
                       <<coordinates[i][1], coordinates[i][2], 0>>,
                       <<coordinates[i + 1][1], coordinates[i + 1][2], 0>>,
                       interpolation_ratio(reversed, i, Len(coordinates)),
                       thickness),
            coordinates, reversed, thickness, i + 1)

\* lines 183-186, counted from one
reconcile_indices(aerofoil_points) ==
    IF aerofoil_points[2].coordinates[1] > aerofoil_points[1].coordinates[1]
    THEN [i \in 1..Len(aerofoil_points) |-> i]
    ELSE [i \in 1..Len(aerofoil_points) |-> Len(aerofoil_points) + 1 - i]

\* lines 191-197 left out: the pair is kept as the outward normals give it
reconcile_one_skipped(aerofoil_points, boundary_points, current_index, previous_index) ==
    boundary_points

\* lines 191-197 for one pair; a comparison with nan is False
reconcile_one(aerofoil_points, boundary_points, current_index, previous_index) ==
    LET cur == boundary_points[current_index].coordinates
        prev == boundary_points[previous_index].coordinates
    IN  IF IsFinite(cur) /\ IsFinite(prev) /\ cur[1] < prev[1]
        THEN [boundary_points EXCEPT ![current_index].coordinates =
                <<prev[1] + (aerofoil_points[current_index].coordinates[1]
                             - aerofoil_points[previous_index].coordinates[1]),
                  prev[2],
                  0>>]
        ELSE boundary_points

\* the loop of lines 188-197, from position i of indices on
RECURSIVE reconcile(_, _, _, _)
reconcile(aerofoil_points, boundary_points, indices, i) ==
    IF i > Len(indices) THEN boundary_points
    ELSE reconcile(aerofoil_points,
                   reconcile_one(aerofoil_points, boundary_points,
                                 indices[i], indices[i - 1]),
                   indices, i + 1)

\* lines 182-197
reconcile_boundary_points(e) ==
    [e EXCEPT !.boundary_points =
        reconcile(e.aerofoil_points, e.boundary_points,
                  reconcile_indices(e.aerofoil_points), 2)]

\* lines 201-204
first_vertical_line(e, regular) ==
    AppendTo(e, "vertical_lines",
             Line(e.ctx, e.aerofoil_points[1], e.boundary_points[1],
                  Some(regular.layers), regular.progression.vertical))

\* lines 210-212
num_transfinite_of(length, width) ==
    IF Quot(length, width) + 1 < 2 THEN 2 ELSE Quot(length, width) + 1

\* lines 208-212 for index i, counted from one
cell_num_transfinite(e, i, regular) ==
    num_transfinite_of(norm(VSub(e.boundary_points[i - 1].coordinates,
                                 e.boundary_points[i].coordinates)),
                       regular.width)

\* lines 213-215 and 223
cell_aerofoil_line(e, i, num_transfinite) ==
    AppendTo(e, "aerofoil_lines",
             Line(e.ctx, e.aerofoil_points[i - 1], e.aerofoil_points[i],
                  Some(num_transfinite), Scale))

\* lines 216-218 and 224
cell_boundary_line(e, i, num_transfinite) ==
    AppendTo(e, "boundary_lines",
             Line(e.ctx, e.boundary_points[i], e.boundary_points[i - 1],
                  Some(num_transfinite), Scale))

\* lines 219-222 and 225
cell_vertical_line(e, i, regular) ==
    AppendTo(e, "vertical_lines",
             Line(e.ctx, e.aerofoil_points[i], e.boundary_points[i],
                  Some(regular.layers), regular.progression.vertical))

\* the four curves of a cell, the previous vertical line not negated
half_loop_elements_unsigned(aerofoil_line, vertical_line, boundary_line, previous_vertical) ==
    <<aerofoil_line.id, vertical_line.id, boundary_line.id, previous_vertical.id>>

\* the elements of lines 226-229
half_loop_elements(aerofoil_line, vertical_line, boundary_line, previous_vertical) ==
    <<aerofoil_line.id, vertical_line.id, boundary_line.id, -1 * previous_vertical.id>>

\* lines 226-229
cell_loop(e) ==
    AppendTo(e, "loops",
             Loop(e.ctx, half_loop_elements(Last(e.aerofoil_lines),
                                            Last(e.vertical_lines),
                                            Last(e.boundary_lines),
                                            e.vertical_lines[Len(e.vertical_lines) - 1])))

\* line 230
cell_surface(e) ==
    AppendTo(e, "surfaces", Surface(e.ctx, <<Last(e.loops).id>>, TRUE))

\* lines 208-230: one pass of the loop
cell(e, i, regular) ==
    cell_surface(
        cell_loop(
            cell_vertical_line(
                cell_boundary_line(
                    cell_aerofoil_line(e, i, cell_num_transfinite(e, i, regular)),
                    i, cell_num_transfinite(e, i, regular)),
                i, regular)))

\* the loop of lines 207-230, from index i (counted from one) on; int(nan) of
\* line 210 raises ValueError
RECURSIVE make_cells(_, _, _)
make_cells(e, i, regular) ==
    IF i > Len(e.aerofoil_points) THEN e
    ELSE IF ~IsFinite(e.boundary_points[i - 1].coordinates)
            \/ ~IsFinite(e.boundary_points[i].coordinates)
    THEN [e EXCEPT !.raised = "ValueError"]
    ELSE make_cells(cell(e, i, regular), i + 1, regular)

NoBlock == [raised |-> "None"]

\* lines 182-230; aerofoil_points[1] of line 183 raises IndexError
half_cells(e, regular) ==
    IF Len(e.aerofoil_points) < 2 THEN [e EXCEPT !.raised = "IndexError"]
    ELSE make_cells(first_vertical_line(reconcile_boundary_points(e), regular),
                    2, regular)

\* lines 232-235
half_block(e) ==
    [points |-> [aerofoil |-> e.aerofoil_points, boundary_layer |-> e.boundary_points],
     curves |-> [aerofoil |-> e.aerofoil_lines, boundary_layer |-> e.boundary_lines,
                 normals |-> e.vertical_lines],
     loops |-> [all |-> e.loops],
     surfaces |-> [all |-> e.surfaces],
     keys |-> [points |-> <<"aerofoil", "boundary_layer">>,
               curves |-> <<"aerofoil", "boundary_layer", "normals">>,
               loops |-> <<"all">>,
               surfaces |-> <<"all">>]]

\* what a builder gives: the counters afterwards, the exception raised ("None"
\* when it returns) and the block returned
Result(e, block) ==
    [ctx |-> e.ctx, raised |-> e.raised,
     block |-> IF e.raised = "None" THEN block ELSE NoBlock]

half_result(e) == Result(e, half_block(e))

half_locals(ctx) ==
    [ctx |-> ctx, raised |-> "None", aerofoil_points |-> <<>>,
     boundary_points |-> <<>>, aerofoil_lines |-> <<>>, boundary_lines |-> <<>>,
     vertical_lines |-> <<>>, loops |-> <<>>, surfaces |-> <<>>]

\* _half_aerofoil(coordinates, config); coordinates[1] of line 146 raises IndexError
_half_aerofoil(ctx, coordinates, cfg) ==
    IF Len(coordinates) < 2
    THEN [ctx |-> ctx, raised |-> "IndexError", block |-> NoBlock]
    ELSE half_result(
            half_cells(make_points(half_locals(ctx), preprocess(coordinates),
                                   is_reversed(coordinates),
                                   cfg.grid.regular.thickness, 1),
                       cfg.grid.regular))

-----------------------------------------------------------------------------
(* cfd/mesh.py: _leading_edge                                               *)

\* c and d of lines 255-256: the unit vector of cross(v, [0, 0, s])
unit_normal(v, s) == [i \in 1..3 |-> Quot(cross_z(v, s)[i] * Scale, norm(v))]

\* lines 257-259, with radius * c computed as (q[1] - r[1]) * c / (d[1] - c[1])
tangent_center(q, r, c, d) ==
    IF d[2] - c[2] = 0 THEN NonFinite
    ELSE VNeg([i \in 1..3 |-> q[i] + Quot((q[2] - r[2]) * c[i], d[2] - c[2])])

\* lines 253-259, for q and r
center_from(q, r) ==
    IF norm(q) = 0 \/ norm(r) = 0 THEN NonFinite
    ELSE tangent_center(q, r, unit_normal(q, -1), unit_normal(r, 1))

\* circle_center (lines 246-259): the coordinates of the Point it returns
circle_center(top_aerofoil_points, bottom_aerofoil_points) ==
    center_from(VSub(top_aerofoil_points[1].coordinates,
                     top_aerofoil_points[2].coordinates),
                VSub(Last(bottom_aerofoil_points).coordinates,
                     bottom_aerofoil_points[Len(bottom_aerofoil_points) - 1].coordinates))

\* line 261
leading_center_point(e, top_block, bottom_block) ==
    Keep(e, "center_point",
         Point(e.ctx, circle_center(top_block.points.aerofoil,
                                    bottom_block.points.aerofoil), None))

\* lines 263-265
leading_num_transfinite(top_boundary_point, bottom_boundary_point, width) ==
    Quot(norm(VSub(top_boundary_point.coordinates, bottom_boundary_point.coordinates)),
         width)

\* lines 267-269
leading_inner(e, top_block, bottom_block, num_transfinite) ==
    Keep(e, "inner",
         Line(e.ctx, top_block.points.aerofoil[1], Last(bottom_block.points.aerofoil),
              Some(num_transfinite), Scale))

\* lines 271-274
leading_outer(e, top_block, bottom_block, num_transfinite) ==
    Keep(e, "outer",
         Circle(e.ctx, e.center_point.id, top_block.points.boundary_layer[1].id,
                Last(bottom_block.points.boundary_layer).id,
                Some(num_transfinite), Scale))

\* the elements of lines 275-278 with the top half's radial line left out
leading_loop_elements_detached(inner, bottom_normal, outer, top_normal) ==
    <<inner.id, bottom_normal.id, -outer.id, -inner.id>>

\* the elements of lines 275-278
leading_loop_elements(inner, bottom_normal, outer, top_normal) ==
    <<inner.id, bottom_normal.id, -outer.id, -top_normal.id>>

\* lines 275-278
leading_loop(e, top_block, bottom_block) ==
    Keep(e, "loop",
         Loop(e.ctx, leading_loop_elements(e.inner, Last(bottom_block.curves.normals),
                                           e.outer, top_block.curves.normals[1])))

\* line 279
leading_surface(e) == Keep(e, "surface", Surface(e.ctx, <<e.loop.id>>, TRUE))

\* lines 281-285
leading_block(e) ==
    [points |-> [center |-> <<e.center_point>>],
     curves |-> [inner_circle |-> <<e.inner>>, outer_circle |-> <<e.outer>>],
     loops |-> [all |-> <<e.loop>>],
     surfaces |-> [all |-> <<e.surface>>],
     keys |-> [points |-> <<"center">>,
               curves |-> <<"inner_circle", "outer_circle">>,
               loops |-> <<"all">>,
               surfaces |-> <<"all">>]]

leading_result(e) == Result(e, leading_block(e))

leading_locals(ctx) ==
    [ctx |-> ctx, raised |-> "None", center_point |-> None, inner |-> None,
     outer |-> None, loop |-> None, surface |-> None]

\* lines 261-274, with num_transfinite of lines 263-265
leading_curves(e, top_block, bottom_block, num_transfinite) ==
    leading_outer(
        leading_inner(leading_center_point(e, top_block, bottom_block),
                      top_block, bottom_block, num_transfinite),
        top_block, bottom_block, num_transfinite)

_leading_edge(ctx, top_block, bottom_block, cfg) ==
    leading_result(
        leading_surface(
            leading_loop(
                leading_curves(
                    leading_locals(ctx), top_block, bottom_block,
                    leading_num_transfinite(top_block.points.boundary_layer[1],
                                            Last(bottom_block.points.boundary_layer),
                                            cfg.grid.regular.width)),
                top_block, bottom_block)))

-----------------------------------------------------------------------------
(* cfd/mesh.py: _trailing_edge                                              *)

WakeInset == 5000               \* 0.5

\* lines 310-312
rectangle_top_right(e, size, top_left) ==
    Keep(e, "top_right",
         Point(e.ctx, <<size - WakeInset, top_left.coordinates[2], 0>>, None))

\* lines 313-315
rectangle_bottom_right(e, size, bottom_left) ==
    Keep(e, "bottom_right",
         Point(e.ctx, <<size - WakeInset, bottom_left.coordinates[2], 0>>, None))

\* lines 317-321
wake_transfinite_num(size, bottom_left, horizontal_discretisation) ==
    IF Quot(size - WakeInset - bottom_left.coordinates[1], horizontal_discretisation) < 2
    THEN 2
    ELSE Quot(size - WakeInset - bottom_left.coordinates[1], horizontal_discretisation)

\* lines 323-326; wake_progression is passed on as the config holds it,
\* Some(ratio) or None
rectangle_top_line(e, top_left, transfinite_num, wake_progression) ==
    Keep(e, "top_line",
         Line(e.ctx, top_left, e.top_right, Some(transfinite_num), wake_progression))

\* lines 327-330
rectangle_bottom_line(e, bottom_left, transfinite_num, wake_progression) ==
    Keep(e, "bottom_line",
         Line(e.ctx, bottom_left, e.bottom_right, Some(transfinite_num),
              wake_progression))

\* lines 331-334
rectangle_right_line(e, left_line) ==
    Keep(e, "right_line",
         Line(e.ctx, e.bottom_right, e.top_right, left_line.transfinite,
              left_line.progression))

\* the elements of lines 336-339
rectangle_loop_elements(left_line, top_line, right_line, bottom_line) ==
    <<left_line.id, top_line.id, -right_line.id, -bottom_line.id>>

\* lines 336-339
rectangle_loop(e, left_line) ==
    Keep(e, "loop",
         Loop(e.ctx, rectangle_loop_elements(left_line, e.top_line, e.right_line,
                                             e.bottom_line)))

\* line 341
rectangle_surface(e) == Keep(e, "surface", Surface(e.ctx, <<e.loop.id>>, TRUE))

\* lines 343-346
rectangle_block(e) ==
    [ctx |-> e.ctx,
     block |-> [points |-> [all |-> <<e.top_right, e.bottom_right>>],
                curves |-> [all |-> <<e.top_line, e.right_line, e.bottom_line>>],
                loops |-> [all |-> <<e.loop>>],
                surfaces |-> [all |-> <<e.surface>>]]]

rectangle_locals(ctx) ==
    [ctx |-> ctx, top_right |-> None, bottom_right |-> None, top_line |-> None,
     bottom_line |-> None, right_line |-> None, loop |-> None, surface |-> None]

\* lines 310-315
rectangle_points(e, size, top_left, bottom_left) ==
    rectangle_bottom_right(rectangle_top_right(e, size, top_left), size, bottom_left)

\* lines 317-334
rectangle_lines(e, top_left, bottom_left, left_line, transfinite_num, wake_progression) ==
    rectangle_right_line(
        rectangle_bottom_line(
            rectangle_top_line(e, top_left, transfinite_num, wake_progression),
            bottom_left, transfinite_num, wake_progression),
        left_line)

\* rectangle (lines 297-346)
rectangle(ctx, cfg, top_left, bottom_left, left_line, horizontal_discretisation, wake_progression) ==
    rectangle_block(
        rectangle_surface(
            rectangle_loop(
                rectangle_lines(
                    rectangle_points(rectangle_locals(ctx), cfg.far_field.size,
                                     top_left, bottom_left),
                    top_left, bottom_left, left_line,
                    wake_transfinite_num(cfg.far_field.size, bottom_left,
                                         horizontal_discretisation),
                    wake_progression),
                left_line)))

\* lines 348-350
trailing_te_line(e, top_block, bottom_block) ==
    Keep(e, "te_line",
         Line(e.ctx, Last(top_block.points.aerofoil), bottom_block.points.aerofoil[1],
              Some(2), Scale))

\* top_rectangle = rectangle(...), bottom_rectangle = rectangle(...)
KeepRectangle(e, name, r) == [e EXCEPT !.ctx = r.ctx, ![name] = r.block]

\* lines 352-356
trailing_top_rectangle(e, top_block, cfg) ==
    KeepRectangle(e, "top_rectangle",
        rectangle(e.ctx, cfg,
                  Last(top_block.points.boundary_layer),
                  Last(top_block.points.aerofoil),
                  Last(top_block.curves.normals),
                  cfg.grid.regular.wake, cfg.grid.regular.progression.wake))

\* lines 358-362
trailing_bottom_rectangle(e, bottom_block, cfg) ==
    KeepRectangle(e, "bottom_rectangle",
        rectangle(e.ctx, cfg,
                  bottom_block.points.boundary_layer[1],
                  bottom_block.points.aerofoil[1],
                  bottom_block.curves.normals[1],
                  cfg.grid.regular.wake, cfg.grid.regular.progression.wake))

\* lines 364-366
trailing_center_right_line(e) ==
    Keep(e, "center_right_line",
         Line(e.ctx, e.top_rectangle.points.all[2], e.bottom_rectangle.points.all[2],
              Some(2), Scale))

\* the elements of lines 367-370
center_loop_elements(te_line, top_bottom_line, center_right_line, bottom_bottom_line) ==
    <<te_line.id, -top_bottom_line.id, -center_right_line.id, bottom_bottom_line.id>>

\* lines 367-370
trailing_center_loop(e) ==
    Keep(e, "center_loop",
         Loop(e.ctx, center_loop_elements(e.te_line, e.top_rectangle.curves.all[3],
                                          e.center_right_line,
                                          e.bottom_rectangle.curves.all[3])))

\* line 371
trailing_center_surface(e) ==
    Keep(e, "center_surface", Surface(e.ctx, <<e.center_loop.id>>, TRUE))

\* lines 373-381: r, the top rectangle's block grown in place
trailing_block(e) ==
    [points |-> [all |-> e.top_rectangle.points.all \o e.bottom_rectangle.points.all],
     curves |-> [all |-> e.top_rectangle.curves.all \o e.bottom_rectangle.curves.all
                         \o <<e.center_right_line>>,
                 trailing_edge |-> <<e.te_line>>],
     loops |-> [all |-> e.top_rectangle.loops.all \o e.bottom_rectangle.loops.all
                        \o <<e.center_loop>>],
     surfaces |-> [all |-> e.top_rectangle.surfaces.all
                           \o e.bottom_rectangle.surfaces.all
                           \o <<e.center_surface>>],
     keys |-> [points |-> <<"all">>,
               curves |-> <<"all", "trailing_edge">>,
               loops |-> <<"all">>,
               surfaces |-> <<"all">>]]

trailing_result(e) == Result(e, trailing_block(e))

trailing_locals(ctx) ==
    [ctx |-> ctx, raised |-> "None", te_line |-> None, top_rectangle |-> None,
     bottom_rectangle |-> None, center_right_line |-> None, center_loop |-> None,
     center_surface |-> None]

\* lines 348-362
trailing_rectangles(e, top_block, bottom_block, cfg) ==
    trailing_bottom_rectangle(
        trailing_top_rectangle(trailing_te_line(e, top_block, bottom_block),
                               top_block, cfg),
        bottom_block, cfg)

_trailing_edge(ctx, top_block, bottom_block, cfg) ==
    trailing_result(
        trailing_center_surface(
            trailing_center_loop(
                trailing_center_right_line(
                    trailing_rectangles(trailing_locals(ctx), top_block, bottom_block,
                                        cfg)))))

-----------------------------------------------------------------------------
(* cfd/mesh.py: _far_field, _serialise and the tail of aerofoil_geometry    *)

\* one Point of _points (lines 392-395)
far_point(e, x, y, grid_size) ==
    AppendTo(e, "points", Point(e.ctx, <<x, y, 0>>, Some(grid_size)))

\* _points (lines 390-395)
far_points(e, v, grid_size) ==
    far_point(far_point(far_point(far_point(e, -v, -v, grid_size), -v, v, grid_size),
                        v, v, grid_size),
              v, -v, grid_size)

\* lines 405 and 407: Line(points[i], points[j], transfinite), counted from one
far_line(e, i, j) ==
    AppendTo(e, "lines", Line(e.ctx, e.points[i], e.points[j], None, Scale))

\* _lines (lines 397-408) with closed = True
far_lines(e) == far_line(far_line(far_line(far_line(e, 1, 2), 2, 3), 3, 4), 4, 1)

Ids(objects) == [i \in 1..Len(objects) |-> objects[i].id]

\* _loop (lines 410-418)
far_loop(e) == Keep(e, "loop", Loop(e.ctx, Ids(e.lines)))

\* lines 424-426
far_block(e) ==
    [points |-> [all |-> e.points],
     curves |-> [all |-> e.lines],
     loops |-> [all |-> <<e.loop>>],
     keys |-> [points |-> <<"all">>, curves |-> <<"all">>, loops |-> <<"all">>]]

far_result(e) == Result(e, far_block(e))

far_locals(ctx) ==
    [ctx |-> ctx, raised |-> "None", points |-> <<>>, lines |-> <<>>, loop |-> None]

_far_field(ctx, cfg) ==
    far_result(far_loop(far_lines(far_points(far_locals(ctx), cfg.far_field.size,
                                             cfg.far_field.discretisation))))

Strs(objects) == [i \in 1..Len(objects) |-> Str(objects[i])]

\* the inner loop of _serialise (lines 131-132) over the keys of block[type]
RECURSIVE serialise_type(_, _, _)
serialise_type(block, type, i) ==
    IF i > Len(block.keys[type]) THEN <<>>
    ELSE Strs(block[type][block.keys[type][i]]) \o serialise_type(block, type, i + 1)

\* the list of line 128 with loops written before curves
SerialisedTypes_loops_first == <<"points", "loops", "curves", "surfaces">>

\* the list of line 128
SerialisedTypes == <<"points", "curves", "loops", "surfaces">>

\* the outer loop of _serialise (lines 128-130)
RECURSIVE serialise_from(_, _)
serialise_from(block, t) ==
    IF t > Len(SerialisedTypes) THEN <<>>
    ELSE (IF SerialisedTypes[t] \notin DOMAIN block THEN <<>>
          ELSE serialise_type(block, SerialisedTypes[t], 1))
         \o serialise_from(block, t + 1)

_serialise(block) == serialise_from(block, 1)

\* lines 71-75
far_field_surface_of(ctx, top_block, bottom_block, leading, trailing, far) ==
    Surface(ctx, Ids(top_block.loops.all \o bottom_block.loops.all
                     \o leading.loops.all \o trailing.loops.all)
                 \o <<far.loops.all[1].id>>, FALSE)

\* lines 78-82 without line 80: the wall left open at the trailing edge
aerofoil_curve_of_open(top_block, bottom_block, leading, trailing) ==
    PhysicalCurve("aerofoil",
                  Ids(top_block.curves.aerofoil)
                  \o Ids(bottom_block.curves.aerofoil)
                  \o <<leading.curves.inner_circle[1].id>>)

\* lines 78-82
aerofoil_curve_of(top_block, bottom_block, leading, trailing) ==
    PhysicalCurve("aerofoil",
                  Ids(top_block.curves.aerofoil)
                  \o <<trailing.curves.trailing_edge[1].id>>
                  \o Ids(bottom_block.curves.aerofoil)
                  \o <<leading.curves.inner_circle[1].id>>)

\* lines 83-84
far_field_curve_of(far) == PhysicalCurve("far_field", Ids(far.curves.all))

\* lines 85-90
physical_surface_of(top_block, bottom_block, leading, trailing, far_field_surface) ==
    PhysicalSurface("dummy",
                    Ids(top_block.surfaces.all \o bottom_block.surfaces.all
                        \o leading.surfaces.all \o trailing.surfaces.all)
                    \o <<far_field_surface.id>>)

\* lines 92-97
statements(top_block, bottom_block, leading, trailing, far, far_field_surface) ==
    _serialise(top_block) \o _serialise(bottom_block) \o _serialise(leading)
    \o _serialise(trailing) \o _serialise(far)
    \o <<Str(far_field_surface),
         Str(aerofoil_curve_of(top_block, bottom_block, leading, trailing)),
         Str(far_field_curve_of(far)),
         Str(physical_surface_of(top_block, bottom_block, leading, trailing,
                                 far_field_surface))>>

\* lines 71-97 of aerofoil_geometry
assemble(ctx, top_block, bottom_block, leading, trailing, far) ==
    LET far_field_surface ==
            far_field_surface_of(ctx, top_block, bottom_block, leading, trailing, far)
    IN  [ctx |-> far_field_surface.ctx,
         out |-> statements(top_block, bottom_block, leading, trailing, far,
                            far_field_surface.obj)]

-----------------------------------------------------------------------------
(* The calls of aerofoil_geometry                                           *)

MaxPts == 3                     \* most coordinates in aerofoil.top and in aerofoil.bottom
MaxCalls == 2                   \* most calls of aerofoil_geometry in one process

\* the subsequences of s of at most n elements
RECURSIVE SubSeqs(_, _)
SubSeqs(s, n) ==
    IF Len(s) = 0 \/ n = 0 THEN {<<>>}
    ELSE LET rest == SubSeqs(Tail(s), n)
         IN  rest \cup {<<Head(s)>> \o t : t \in SubSeqs(Tail(s), n - 1)}

\* coordinates an upper surface may run through, leading edge to trailing edge;
\* near x = 0.75 the x of the coordinates goes back and forth within 1.2e-3
TopCatalogue ==
    <<<<3000, 600>>, <<3000, 600>>, <<7500, 300>>, <<7512, 400>>, <<7505, 500>>,
      <<9700, 100>>, <<10000, 200>>>>

\* coordinates a lower surface may run through, trailing edge to leading edge
BottomCatalogue ==
    <<<<10000, 0>>, <<10000, -100>>, <<9000, -100>>, <<8995, -300>>, <<4000, -500>>,
      <<4000, -500>>>>

LeadingEdges == {<<0, 0>>}

Aerofoils ==
    [leading_edge : LeadingEdges,
     top : SubSeqs(TopCatalogue, MaxPts) \ {<<>>},
     bottom : SubSeqs(BottomCatalogue, MaxPts) \ {<<>>}]

\* default_config(), and a coarse grid close to the surface with no wake
\* progression; the wake progression, which may be None, is held as Some(ratio)
\* or None
Configs ==
    {[far_field |-> [size |-> 100000, discretisation |-> 5000],
      grid |-> [regular |-> [width |-> 1000, wake |-> 1500, layers |-> 80,
                             thickness |-> 90000,
                             progression |-> [vertical |-> 11000,
                                              wake |-> Some(10300)]]]],
     [far_field |-> [size |-> 52000, discretisation |-> 5000],
      grid |-> [regular |-> [width |-> 1000, wake |-> 200, layers |-> 2,
                             thickness |-> 400,
                             progression |-> [vertical |-> 10000,
                                              wake |-> None]]]]}

NoLine == [class |-> "None"]

Counters == [Point |-> Point_next_id, Curve |-> Curve_next_id,
             Surface |-> Surface_next_id, created |-> created]

SetCounters(ctx) ==
    /\ Point_next_id' = ctx.Point
    /\ Curve_next_id' = ctx.Curve
    /\ Surface_next_id' = ctx.Surface
    /\ created' = ctx.created

Init ==
    /\ entities = <<>>
    /\ Point_next_id = 1
    /\ Curve_next_id = 1
    /\ Surface_next_id = 1
    /\ created = <<>>
    /\ pc = "idle"
    /\ aerofoil = None
    /\ config = None
    /\ top = NoBlock
    /\ bottom = NoBlock
    /\ leading_edge = NoBlock
    /\ trailing_edge = NoBlock
    /\ far_field = NoBlock
    /\ returned = <<>>
    /\ line = NoLine
    /\ called = None
    /\ threads = <<>>

\* the number of calls of aerofoil_geometry that have ended
calls_ended == Len(returned)

\* aerofoil_geometry(a, c) is entered
Call ==
    /\ pc = "idle"
    /\ \E a \in Aerofoils, c \in Configs :
        /\ aerofoil' = a
        /\ config' = c
    /\ pc' = "top"
    /\ UNCHANGED <<entities, Point_next_id, Curve_next_id, Surface_next_id, created, top, bottom,
                   leading_edge, trailing_edge, far_field, returned, line, called,
                   threads>>

\* aerofoil_geometry is entered again with the same aerofoil and configuration
CallAgain ==
    /\ pc \in {"returned", "raised"}
    /\ calls_ended < MaxCalls
    /\ pc' = "top"
    /\ top' = NoBlock
    /\ bottom' = NoBlock
    /\ leading_edge' = NoBlock
    /\ trailing_edge' = NoBlock
    /\ far_field' = NoBlock
    /\ UNCHANGED <<entities, Point_next_id, Curve_next_id, Surface_next_id, created, aerofoil,
                   config, returned, line, called, threads>>

\* one statement of aerofoil_geometry building a block: r is what the builder
\* gives, the exception propagates out of aerofoil_geometry
Built(r, next) ==
    /\ SetCounters(r.ctx)
    /\ IF r.raised = "None"
       THEN /\ pc' = next
            /\ returned' = returned
       ELSE /\ pc' = "raised"
            /\ returned' = Append(returned, [raised |-> r.raised])

\* lines 59-60
BuildTop ==
    /\ pc = "top"
    /\ LET r == _half_aerofoil(Counters, <<aerofoil.leading_edge>> \o aerofoil.top, config)
       IN  /\ Built(r, "bottom")
           /\ top' = r.block
    /\ UNCHANGED <<entities, aerofoil, config, bottom, leading_edge, trailing_edge, far_field,
                   line, called, threads>>

\* lines 62-63
BuildBottom ==
    /\ pc = "bottom"
    /\ LET r == _half_aerofoil(Counters, aerofoil.bottom \o <<aerofoil.leading_edge>>,
                               config)
       IN  /\ Built(r, "leading_edge")
           /\ bottom' = r.block
    /\ UNCHANGED <<entities, aerofoil, config, top, leading_edge, trailing_edge, far_field,
                   line, called, threads>>

\* line 65
BuildLeadingEdge ==
    /\ pc = "leading_edge"
    /\ LET r == _leading_edge(Counters, top, bottom, config)
       IN  /\ Built(r, "trailing_edge")
           /\ leading_edge' = r.block
    /\ UNCHANGED <<entities, aerofoil, config, top, bottom, trailing_edge, far_field,
                   line, called, threads>>

\* line 67
BuildTrailingEdge ==
    /\ pc = "trailing_edge"
    /\ LET r == _trailing_edge(Counters, top, bottom, config)
       IN  /\ Built(r, "far_field")
           /\ trailing_edge' = r.block
    /\ UNCHANGED <<entities, aerofoil, config, top, bottom, leading_edge, far_field,
                   line, called, threads>>

\* line 69
BuildFarField ==
    /\ pc = "far_field"
    /\ LET r == _far_field(Counters, config)
       IN  /\ Built(r, "assemble")
           /\ far_field' = r.block
    /\ UNCHANGED <<entities, aerofoil, config, top, bottom, leading_edge, trailing_edge,
                   line, called, threads>>

\* lines 71-97
Return ==
    /\ pc = "assemble"
    /\ LET r == assemble(Counters, top, bottom, leading_edge, trailing_edge, far_field)
       IN  /\ SetCounters(r.ctx)
           /\ returned' = Append(returned, [raised |-> "None", out |-> r.out])
    /\ pc' = "returned"
    /\ UNCHANGED <<entities, aerofoil, config, top, bottom, leading_edge, trailing_edge, far_field,
                   line, called, threads>>

Next ==
    \/ Call
    \/ CallAgain
    \/ BuildTop
    \/ BuildBottom
    \/ BuildLeadingEdge
    \/ BuildTrailingEdge
    \/ BuildFarField
    \/ Return

Spec == Init /\ [][Next]_vars

-----------------------------------------------------------------------------
(* The Line methods, called on a Line built by the constructors             *)

MaxSegments == 4                \* most segments of a line whose progression is fitted

\* where a Line from the origin may end: lengths 0, 0.25, 0.5 and 0.8
LineEnds == {<<0, 0, 0>>, <<2500, 0, 0>>, <<3000, 4000, 0>>, <<0, 8000, 0>>}

\* the transfinite argument of the constructor
Transfinites == {None, Some(2), Some(3), Some(4)}

\* the initial_width argument of progression_from_width
InitialWidths == {1000, 2500, 5000}

\* the grid_size argument of transfinite_from_grid_size
GridSizes == {1000, 2500, 3000}

FreshCounters == [Point |-> 1, Curve |-> 1, Surface |-> 1, created |-> <<>>]

\* Line(Point((0, 0, 0)), Point(end), transfinite)
line_between(ctx, origin, end, transfinite) ==
    Line(Point(Point(ctx, origin, None).ctx, end, None).ctx,
         Point(ctx, origin, None).obj,
         Point(Point(ctx, origin, None).ctx, end, None).obj,
         transfinite, Scale)

InitLine ==
    /\ entities = <<>>
    /\ \E end \in LineEnds, transfinite \in Transfinites :
        /\ line = line_between(FreshCounters, <<0, 0, 0>>, end, transfinite).obj
        /\ Point_next_id = line_between(FreshCounters, <<0, 0, 0>>, end, transfinite).ctx.Point
        /\ Curve_next_id = line_between(FreshCounters, <<0, 0, 0>>, end, transfinite).ctx.Curve
        /\ created = line_between(FreshCounters, <<0, 0, 0>>, end, transfinite).ctx.created
    /\ Surface_next_id = 1
    /\ pc = "idle"
    /\ aerofoil = None
    /\ config = None
    /\ top = NoBlock
    /\ bottom = NoBlock
    /\ leading_edge = NoBlock
    /\ trailing_edge = NoBlock
    /\ far_field = NoBlock
    /\ returned = <<>>
    /\ called = None
    /\ threads = <<>>

\* line.progression_from_width(initial_width); line 74 raises on a line that is
\* not transfinite
ProgressionFromWidth ==
    /\ \E initial_width \in InitialWidths :
        IF line.transfinite = None
        THEN /\ line' = line
             /\ called' = Some([method |-> "progression_from_width",
                                 arg |-> initial_width, self |-> line,
                                 raised |-> "ValueError"])
        ELSE /\ line.transfinite[1] <= MaxSegments
             /\ \E progression \in progression_from_width_results(line, initial_width) :
                    line' = [line EXCEPT !.progression = progression]
             /\ called' = Some([method |-> "progression_from_width",
                                 arg |-> initial_width, self |-> line,
                                 raised |-> "None"])
    /\ UNCHANGED <<entities, Point_next_id, Curve_next_id, Surface_next_id, created, pc, aerofoil,
                   config, top, bottom, leading_edge, trailing_edge, far_field, returned,
                   threads>>

\* line.transfinite_from_grid_size(grid_size)
TransfiniteFromGridSize ==
    /\ \E grid_size \in GridSizes :
        /\ line' = [line EXCEPT !.transfinite =
                        Some(transfinite_from_grid_size_result(line, grid_size))]
        /\ called' = Some([method |-> "transfinite_from_grid_size", arg |-> grid_size,
                            self |-> line, raised |-> "None"])
    /\ UNCHANGED <<entities, Point_next_id, Curve_next_id, Surface_next_id, created, pc, aerofoil,
                   config, top, bottom, leading_edge, trailing_edge, far_field, returned,
                   threads>>

NextLine ==
    \/ ProgressionFromWidth
    \/ TransfiniteFromGridSize

SpecLine == InitLine /\ [][NextLine]_vars

-----------------------------------------------------------------------------
(* Loops and Surfaces constructed by a caller of the primitives, beside a   *)
(* Line                                                                     *)

MaxEntities == 2                \* most Loops and Surfaces constructed beside line

\* the elements argument of Loop: signed curve ids, 1 being line.id and 7 the id
\* of no curve
LoopElements == {<<1>>, <<-1>>, <<1, 7>>}

\* the elements argument of Surface: loop ids, 2 being the id of the first Loop
\* constructed after line and 9 the id of no loop
SurfaceElements == {<<2>>, <<9>>}

\* Loop(elements)
NewLoop ==
    /\ Len(entities) < MaxEntities
    /\ \E elements \in LoopElements :
        /\ SetCounters(Loop(Counters, elements).ctx)
        /\ entities' = Append(entities, Loop(Counters, elements).obj)
    /\ UNCHANGED <<pc, aerofoil, config, top, bottom, leading_edge, trailing_edge,
                   far_field, returned, line, called, threads>>

\* Surface(elements)
NewSurface ==
    /\ Len(entities) < MaxEntities
    /\ \E elements \in SurfaceElements :
        /\ SetCounters(Surface(Counters, elements, FALSE).ctx)
        /\ entities' = Append(entities, Surface(Counters, elements, FALSE).obj)
    /\ UNCHANGED <<pc, aerofoil, config, top, bottom, leading_edge, trailing_edge,
                   far_field, returned, line, called, threads>>

NextEntities ==
    \/ NewLoop
    \/ NewSurface

SpecEntities == InitLine /\ [][NextEntities]_vars

-----------------------------------------------------------------------------
(* aerofoil.py: Aerofoil.load_from_gnu. A file is the sequence of its lines, *)
(* a line the sequence of the numbers its tokens hold once the first three  *)
(* characters are cut off and the rest is split on spaces (lines 29-31)      *)

\* sections of the files read: the top and the bottom, each from the leading
\* edge (0, 0) to the trailing edge; <<x, 0, y>> is a line of three tokens
\* (two spaces between the numbers), of which lines 32-33 keep the first and
\* the last; a line of one token ends the first section (lines 34-36)
GnuFiles ==
    {<<<<0, 0>>>> \o t \o <<<<0>>>> \o <<<<0, 0>>>> \o b :
        t \in {<<p>> : p \in {<<10000, 10>>, <<10000, 0, 12>>, <<9990, 20>>}}
              \cup {<<p, q>> : p \in {<<3000, 600>>, <<5000, 500>>},
                               q \in {<<10000, 10>>, <<10000, 14>>, <<9990, 20>>}},
        b \in {<<p>> : p \in {<<10000, -10>>, <<10000, 0>>, <<10000, -14>>}}
              \cup {<<p, q>> : p \in {<<3000, -400>>, <<5000, 0, -300>>, <<5000, -200>>},
                               q \in {<<10000, -10>>, <<10000, 0>>, <<10000, -14>>}}}

\* lines 25-37: the loop over the lines of the file from line i on; points
\* names the list being appended to
RECURSIVE read_lines(_, _, _, _, _)
read_lines(file, i, top_list, bottom_list, points) ==
    IF i > Len(file) THEN [top |-> top_list, bottom |-> bottom_list]
    ELSE IF Len(IF Len(file[i]) > 2 THEN <<file[i][1], Last(file[i])>> ELSE file[i]) < 2
         THEN read_lines(file, i + 1, top_list, bottom_list, "bottom")
    ELSE IF points = "top"
         THEN read_lines(file, i + 1, Append(top_list, <<file[i][1], Last(file[i])>>), bottom_list, points)
         ELSE read_lines(file, i + 1, top_list, Append(bottom_list, <<file[i][1], Last(file[i])>>), points)

\* lines 39-44 on the lists read, where bottom_list is already reversed
\* (line 39); 0.5 * (a + b) is (a + b) / 2
load_from_gnu(top_list, bottom_list) ==
    [coordinates |-> top_list \o SubSeq(bottom_list, 2, Len(bottom_list) - 1),
     top |-> Tail(top_list),
     bottom |-> SubSeq(bottom_list, 1, Len(bottom_list) - 1),
     leading_edge |-> top_list[1],
     trailing_edge |-> <<Last(top_list)[1], Quot(Last(bottom_list)[2] + Last(top_list)[2], 2)>>]

\* Aerofoil(), lines 12-17
InitLoad ==
    /\ entities = <<>>
    /\ Point_next_id = 1
    /\ Curve_next_id = 1
    /\ Surface_next_id = 1
    /\ created = <<>>
    /\ pc = "idle"
    /\ aerofoil = [coordinates |-> <<>>, top |-> <<>>, bottom |-> <<>>,
                   leading_edge |-> None, trailing_edge |-> None]
    /\ config = None
    /\ top = NoBlock
    /\ bottom = NoBlock
    /\ leading_edge = NoBlock
    /\ trailing_edge = NoBlock
    /\ far_field = NoBlock
    /\ returned = <<>>
    /\ line = NoLine
    /\ called = None
    /\ threads = <<>>

\* aerofoil.load_from_gnu(file); called holds the file read last
LoadFromGnu ==
    \E file \in GnuFiles :
        /\ aerofoil' = load_from_gnu(read_lines(file, 1, <<>>, <<>>, "top").top,
                                     Reverse(read_lines(file, 1, <<>>, <<>>, "top").bottom))
        /\ called' = Some(file)
        /\ UNCHANGED <<entities, Point_next_id, Curve_next_id, Surface_next_id, created, pc,
                       config, top, bottom, leading_edge, trailing_edge, far_field,
                       returned, line, threads>>

NextLoad == LoadFromGnu

SpecLoad == InitLoad /\ [][NextLoad]_vars

-----------------------------------------------------------------------------
(* Two builds in one process, interleaved between the two statements of a   *)
(* constructor (geometry.py lines 14-15, 38-39 and 145-146)                 *)

MaxSteps == 5                   \* most entities a concurrent build constructs

Prefix(s, n) == SubSeq(s, 1, IF Len(s) < n THEN Len(s) ELSE n)

\* the entities a build constructs first when it runs alone in a fresh
\* process: those of its first statement (mesh.py lines 59-60)
alone(a, c) ==
    Prefix(_half_aerofoil(FreshCounters, <<a.leading_edge>> \o a.top, c).ctx.created,
           MaxSteps)

\* the aerofoils built concurrently: one whose upper surface gives a single
\* segment and one whose upper surface gives two
ConcAerofoils ==
    {a \in Aerofoils :
        /\ a.bottom = <<BottomCatalogue[1]>>
        /\ a.top \in {<<TopCatalogue[1]>>, <<TopCatalogue[1], TopCatalogue[3]>>}}

\* a build about to construct its first entity
thread_of(a, c) ==
    [alone |-> alone(a, c), made |-> <<>>, step |-> "read"]

InitConc ==
    /\ entities = <<>>
    /\ Point_next_id = 1
    /\ Curve_next_id = 1
    /\ Surface_next_id = 1
    /\ created = <<>>
    /\ \E a1 \in ConcAerofoils, a2 \in ConcAerofoils, c \in Configs :
        threads = <<thread_of(a1, c), thread_of(a2, c)>>
    /\ pc = "idle"
    /\ aerofoil = None
    /\ config = None
    /\ top = NoBlock
    /\ bottom = NoBlock
    /\ leading_edge = NoBlock
    /\ trailing_edge = NoBlock
    /\ far_field = NoBlock
    /\ returned = <<>>
    /\ line = NoLine
    /\ called = None

\* the family of the entity build t constructs next
family_of(t) == threads[t].alone[Len(threads[t].made) + 1][1]

\* Cls._next_id of a family
counter_of(family) ==
    CASE family = "Point" -> Point_next_id
      [] family = "Curve" -> Curve_next_id
      [] family = "Surface" -> Surface_next_id

\* self.id = self._next_id, in build t
ReadCounter ==
    /\ \E t \in DOMAIN threads :
        /\ Len(threads[t].made) < Len(threads[t].alone)
        /\ threads[t].step = "read"
        /\ threads' = [threads EXCEPT
                ![t].made = Append(@, <<family_of(t), ReadId(counter_of(family_of(t)))>>),
                ![t].step = "increment"]
        /\ created' = Append(created, <<family_of(t), ReadId(counter_of(family_of(t)))>>)
    /\ UNCHANGED <<entities, Point_next_id, Curve_next_id, Surface_next_id, pc, aerofoil, config,
                   top, bottom, leading_edge, trailing_edge, far_field, returned, line,
                   called>>

\* Cls._next_id += 1, in build t
IncrementCounter ==
    /\ \E t \in DOMAIN threads :
        /\ threads[t].step = "increment"
        /\ threads' = [threads EXCEPT ![t].step = "read"]
        /\ Point_next_id' = IF Last(threads[t].made)[1] = "Point"
                            THEN Increment(Point_next_id) ELSE Point_next_id
        /\ Curve_next_id' = IF Last(threads[t].made)[1] = "Curve"
                            THEN Increment(Curve_next_id) ELSE Curve_next_id
        /\ Surface_next_id' = IF Last(threads[t].made)[1] = "Surface"
                              THEN Increment(Surface_next_id) ELSE Surface_next_id
    /\ UNCHANGED <<entities, created, pc, aerofoil, config, top, bottom, leading_edge,
                   trailing_edge, far_field, returned, line, called>>

NextConc ==
    \/ ReadCounter
    \/ IncrementCounter

SpecConc == InitConc /\ [][NextConc]_vars

-----------------------------------------------------------------------------
(* Properties of the blocks aerofoil_geometry has built so far              *)

Range(s) == {s[i] : i \in DOMAIN s}

RECURSIVE held_from(_, _, _)
held_from(block, type, i) ==
    IF i > Len(block.keys[type]) THEN <<>>
    ELSE block[type][block.keys[type][i]] \o held_from(block, type, i + 1)

\* the entities of one type a block holds
Held(block, type) ==
    IF type \notin DOMAIN block THEN {} ELSE Range(held_from(block, type, 1))

\* the entities of one type in the blocks built by the running call
InBlocks(type) ==
    Held(top, type) \cup Held(bottom, type) \cup Held(leading_edge, type)
    \cup Held(trailing_edge, type) \cup Held(far_field, type)

PointOf(id) == CHOOSE p \in InBlocks("points") : p.id = id
CurveOf(id) == CHOOSE c \in InBlocks("curves") : c.id = id
LoopOf(id) == CHOOSE l \in InBlocks("loops") : l.id = id

\* a Line holds its end points, a Circle their ids
BeginPoint(c) == IF c.class = "Line" THEN c.begin ELSE PointOf(c.begin)
EndPoint(c) == IF c.class = "Line" THEN c.end ELSE PointOf(c.end)

\* where a signed curve reference starts and ends
From(ref) == IF ref > 0 THEN BeginPoint(CurveOf(ref)) ELSE EndPoint(CurveOf(-ref))
To(ref) == IF ref > 0 THEN EndPoint(CurveOf(ref)) ELSE BeginPoint(CurveOf(-ref))

\* the vector along a signed curve reference
Along(ref) == VSub(To(ref).coordinates, From(ref).coordinates)

RECURSIVE SumAlong(_, _)
SumAlong(elements, k) ==
    IF k > Len(elements) THEN <<0, 0, 0>>
    ELSE VAdd(Along(elements[k]), SumAlong(elements, k + 1))

\* both halves keep at least three coordinates after preprocessing
KeepsThree ==
    /\ pc # "idle"
    /\ Len(preprocess(<<aerofoil.leading_edge>> \o aerofoil.top)) >= 3
    /\ Len(preprocess(aerofoil.bottom \o <<aerofoil.leading_edge>>)) >= 3

\* C1: when both halves keep at least three coordinates, every Curve Loop
\* built closes: the vectors along its signed curve references, each from the
\* curve's begin point to its end point and negated for a negative reference,
\* sum to the zero vector.
C1_LoopsClose ==
    KeepsThree => \A l \in InBlocks("loops") : SumAlong(l.elements, 1) = <<0, 0, 0>>

\* a call has returned with the loops of both halves, of the leading edge, of
\* the wake (two rectangles and the centre) and of the far field
C1_AllLoopsBuilt ==
    /\ KeepsThree
    /\ pc = "returned"
    /\ Cardinality(InBlocks("loops")) >= 7

\* C2: in every Curve Loop built, the signed curve references are in traversal
\* order: each one ends at the point where the next one starts, and the last
\* one ends where the first one starts.
C2_TraversalOrder ==
    \A l \in InBlocks("loops") :
        \A k \in 1..Len(l.elements) :
            To(l.elements[k]).id
                = From(l.elements[IF k = Len(l.elements) THEN 1 ELSE k + 1]).id

\* the segment count of the curve a signed reference names
SegmentsOf(ref) == CurveOf(Abs(ref)).transfinite

\* C3: every Surface built with the transfinite flag is bounded by one loop of
\* exactly four curves, whose 1st and 3rd curves carry the same segment count
\* and whose 2nd and 4th curves carry the same segment count.
C3_OppositeCounts ==
    \A s \in InBlocks("surfaces") :
        s.transfinite =>
            /\ Len(s.elements) = 1
            /\ Len(LoopOf(s.elements[1]).elements) = 4
            /\ SegmentsOf(LoopOf(s.elements[1]).elements[1])
                = SegmentsOf(LoopOf(s.elements[1]).elements[3])
            /\ SegmentsOf(LoopOf(s.elements[1]).elements[2])
                = SegmentsOf(LoopOf(s.elements[1]).elements[4])

\* C4: two calls of aerofoil_geometry with the same aerofoil and the same
\* configuration return statement lists that are equal element by element.
C4_SameOutput ==
    (/\ Len(returned) >= 2
     /\ returned[1].raised = "None"
     /\ returned[2].raised = "None") => returned[2].out = returned[1].out

-----------------------------------------------------------------------------
(* Properties of the ids handed out                                         *)

Families == {"Point", "Curve", "Surface"}

\* no id of history[i..] is in seen[family] or occurs twice in its family
RECURSIVE DistinctFrom(_, _, _)
DistinctFrom(history, i, seen) ==
    IF i > Len(history) THEN TRUE
    ELSE /\ history[i][2] \notin seen[history[i][1]]
         /\ DistinctFrom(history, i + 1,
                         [seen EXCEPT ![history[i][1]] = @ \cup {history[i][2]}])

DistinctIds(history) == DistinctFrom(history, 1, [f \in Families |-> {}])

\* every id of history[i..] is at least 1 and one greater than the id before it
\* in its family, which is last[family] (0 when there is none)
RECURSIVE ConsecutiveFrom(_, _, _)
ConsecutiveFrom(history, i, last) ==
    IF i > Len(history) THEN TRUE
    ELSE /\ history[i][2] >= 1
         /\ last[history[i][1]] # 0 => history[i][2] = last[history[i][1]] + 1
         /\ ConsecutiveFrom(history, i + 1, [last EXCEPT ![history[i][1]] = history[i][2]])

ConsecutiveIds(history) == ConsecutiveFrom(history, 1, [f \in Families |-> 0])

\* C5: after any sequence of entity creations by one thread, the ids are
\* pairwise distinct within each family (Point; Curve, shared by Line, Circle
\* and Loop; Surface), each id is one greater than the id of the entity created
\* before it in the same family, and every id is at least 1.
C5_IdsConsecutive == DistinctIds(created) /\ ConsecutiveIds(created)

\* two calls have returned, both having created entities of all three families
C5_EveryFamilyCreated ==
    /\ calls_ended >= 2
    /\ pc = "returned"
    /\ returned[1].raised = "None"
    /\ \A f \in Families : \E i \in DOMAIN created : created[i][1] = f

\* C6: when two builds interleave between the two steps of a constructor, no
\* two entities of one family receive the same id, and each build hands out
\* the ids it hands out when it runs alone.
C6_ConcurrentBuilds ==
    /\ DistinctIds(created)
    /\ \A t \in DOMAIN threads :
        threads[t].made = Prefix(threads[t].alone, Len(threads[t].made))

-----------------------------------------------------------------------------
(* Properties of the Line methods                                           *)

\* the method last called on line
WasCalled(method) ==
    /\ called # None
    /\ called[1].method = method
    /\ called[1].raised = "None"

\* C7: on a Line of 2 segments and positive length, progression_from_width
\* with a positive initial width leaves the progression equal to 1.
C7_TwoSegmentsGiveOne ==
    (/\ WasCalled("progression_from_width")
     /\ called[1].self.transfinite = Some(2)
     /\ length_of(called[1].self) > 0
     /\ called[1].arg > 0) => line.progression = Scale

\* the polynomial r^n - (L/w) r + (L/w - 1), whose roots other than 1 are the
\* ratios r with w (1 + r + ... + r^(n-1)) = L; laid out as coefficients
geometric_sum_coefficients(n, ratio) ==
    [i \in 1..(n + 1) |->
        IF i = 1 THEN RootDen
        ELSE IF i = n THEN -ratio
        ELSE IF i = n + 1 THEN ratio - RootDen
        ELSE 0]

\* C8: on a Line of n > 2 segments, whenever progression_from_width stores a
\* ratio r other than 1, w (1 + r + ... + r^(n-1)) equals L, that is, r is a
\* root of r^n - (L/w) r + (L/w - 1).  A stored ratio stands for the roots in
\* [r, r + 1 / RootDen).
C8_RatioGivesLength ==
    (/\ WasCalled("progression_from_width")
     /\ called[1].self.transfinite[1] > 2
     /\ line.progression # Scale) =>
        Quot(line.progression * RootDen, Scale)
            \in real_roots(
                   geometric_sum_coefficients(
                       called[1].self.transfinite[1],
                       Quot(length_of(called[1].self) * RootDen, called[1].arg)),
                   Quot(length_of(called[1].self) * RootDen, called[1].arg)
                       + 2 * RootDen)

\* C9: transfinite_from_grid_size sets the segment count to
\* max(2, floor(L / w) + 1), so that count * w >= L.
C9_CountCoversLength ==
    WasCalled("transfinite_from_grid_size") =>
        /\ line.transfinite
            = Some(IF (length_of(called[1].self) \div called[1].arg) + 1 < 2 THEN 2
                   ELSE (length_of(called[1].self) \div called[1].arg) + 1)
        /\ line.transfinite[1] * called[1].arg >= length_of(called[1].self)

\* C10: when layers >= 2 and the width and wake sizes are positive, every Line
\* and Circle statement returned that carries a segment count carries a count
\* of at least 2.
C10_CountsAtLeastTwo ==
    \A r \in Range(returned) :
        (/\ r.raised = "None"
         /\ config.grid.regular.layers >= 2
         /\ config.grid.regular.width > 0
         /\ config.grid.regular.wake > 0) =>
            \A s \in Range(r.out) :
                (s.stmt \in {"Line", "Circle"} /\ s.transfinite # None)
                    => s.transfinite[2] >= 2

-----------------------------------------------------------------------------
(* Properties of _half_aerofoil on the halves of the running call           *)

\* the coordinate lists aerofoil_geometry hands to _half_aerofoil (mesh.py
\* lines 59-63) in the running call
Halves ==
    IF pc = "idle" THEN {}
    ELSE {<<aerofoil.leading_edge>> \o aerofoil.top,
          aerofoil.bottom \o <<aerofoil.leading_edge>>}

\* C11: the collapse does not depend on the direction a half is given in: for
\* every half S of at least two coordinates, the coordinates kept of reverse(S)
\* are the reverse of the coordinates kept of S, also when the two coordinates
\* at the trailing-edge end of S have the same x
C11_CollapseIgnoresDirection ==
    \A S \in Halves :
        Len(S) >= 2 => preprocess(Reverse(S)) = Reverse(preprocess(S))

\* the distance in the plane between two coordinates
planar_distance(p, q) == norm(<<q[1] - p[1], q[2] - p[2], 0>>)

\* the coordinates of S missing from what _half_aerofoil keeps of S
Removed(S) == {i \in 1..Len(S) : S[i] \notin Range(preprocess(S))}

\* C12: a coordinate is removed only as half of a pair aft of x = 0.7 whose
\* coordinates are less than 1e-3 apart in the plane; a pair aft of 0.7 with
\* the same x and y at least 1e-3 apart keeps both its coordinates
C12_RemovedOnlyWhenClose ==
    \A S \in Halves :
        Len(S) >= 2 =>
            \A i \in Removed(S) :
                \E j \in (1..Len(S)) \ {i} :
                    /\ S[i][1] > AftThreshold \/ S[j][1] > AftThreshold
                    /\ planar_distance(S[i], S[j]) < NoiseFloor

\* the interpolation parameter _half_aerofoil uses on segment i of half S
RatioOn(S, i) == interpolation_ratio(is_reversed(S), i, Len(preprocess(S)))

\* the segment of the kept coordinates that touches the trailing edge, the end
\* of larger x
TrailingSegment(kept) ==
    IF kept[1][1] < kept[Len(kept)][1] THEN Len(kept) - 1 ELSE 1

\* the parameter that puts the surface point 95% of the way toward the
\* trailing-edge coordinate of that segment
TrailingRatio(kept) ==
    IF kept[1][1] < kept[Len(kept)][1] THEN AftRatio ELSE ForeRatio

\* the segments of S between two identical coordinates
ZeroLength(S) == {i \in 1..(Len(S) - 1) : S[i] = S[i + 1]}

\* C13: on every half of at least two kept coordinates, exactly one segment has
\* an interpolation parameter other than 0.5: the segment at the trailing-edge
\* end, with 0.95 when it is the last one and 0.05 when it is the first (seen
\* here on the halves without a segment of zero length)
C13_OneTrailingSegment ==
    \A S \in Halves :
        (Len(S) >= 2 /\ Len(preprocess(S)) >= 2 /\ ZeroLength(S) = {}) =>
            \A i \in 1..(Len(preprocess(S)) - 1) :
                RatioOn(S, i) = IF i = TrailingSegment(preprocess(S))
                                THEN TrailingRatio(preprocess(S))
                                ELSE MidRatio

\* the halves of the running call whose block _half_aerofoil has returned,
\* each with its block
BuiltHalves ==
    IF pc = "idle" THEN {}
    ELSE {h \in {<<<<aerofoil.leading_edge>> \o aerofoil.top, top>>,
                 <<aerofoil.bottom \o <<aerofoil.leading_edge>>, bottom>>} :
            "points" \in DOMAIN h[2]}

\* the locals of _half_aerofoil on half S after the loop of lines 165-180,
\* before the reconciliation of lines 182-197
RawPoints(S) ==
    make_points(half_locals(FreshCounters), preprocess(S), is_reversed(S),
                config.grid.regular.thickness, 1)

\* the x of offset point i as the outward normal gives it
RawX(S, i) == RawPoints(S).boundary_points[i].coordinates[1]

\* C14: in a returned block, every offset point that the outward normal puts
\* aft of x = 0.7 and forward of its own midpoint has the x of that midpoint
C14_ReflexClamped ==
    \A h \in BuiltHalves :
        \A i \in 1..Len(h[2].points.boundary_layer) :
            (/\ RawX(h[1], i) > AftThreshold
             /\ RawX(h[1], i) < h[2].points.aerofoil[i].coordinates[1])
            => h[2].points.boundary_layer[i].coordinates[1]
               = h[2].points.aerofoil[i].coordinates[1]

StrictlyMonotonic(S) ==
    \/ \A i \in 1..(Len(S) - 1) : S[i][1] < S[i + 1][1]
    \/ \A i \in 1..(Len(S) - 1) : S[i][1] > S[i + 1][1]

\* the x of the points, read in the direction of ascending surface-point x
AscendingX(block, key) ==
    IF block.points.aerofoil[1].coordinates[1]
       <= Last(block.points.aerofoil).coordinates[1]
    THEN [i \in 1..Len(block.points[key]) |-> block.points[key][i].coordinates[1]]
    ELSE [i \in 1..Len(block.points[key]) |->
            block.points[key][Len(block.points[key]) + 1 - i].coordinates[1]]

\* C15: on a half whose kept coordinates are strictly monotonic in x and number
\* at least three, the offset points of the returned block, read in the
\* direction of ascending surface-point x, have non-decreasing x
C15_OffsetsAscend ==
    \A h \in BuiltHalves :
        (StrictlyMonotonic(preprocess(h[1])) /\ Len(preprocess(h[1])) >= 3) =>
            \A i \in 1..(Len(h[2].points.boundary_layer) - 1) :
                AscendingX(h[2], "boundary_layer")[i]
                <= AscendingX(h[2], "boundary_layer")[i + 1]

\* a block has been returned for such a half whose outward normals put one
\* offset point behind the one before it
C15_OutOfOrderReconciled ==
    \E h \in BuiltHalves :
        /\ StrictlyMonotonic(preprocess(h[1]))
        /\ Len(preprocess(h[1])) >= 3
        /\ \E i \in 1..Len(h[2].points.boundary_layer) :
            RawX(h[1], i) # h[2].points.boundary_layer[i].coordinates[1]

\* the index the reconciliation compares index i with, 0 for the index it
\* starts from
ComparedWith(block, i) ==
    IF block.points.aerofoil[2].coordinates[1] > block.points.aerofoil[1].coordinates[1]
    THEN i - 1
    ELSE IF i = Len(block.points.aerofoil) THEN 0 ELSE i + 1

\* C16: the reconciliation changes nothing but the x of the later offset point
\* of an out-of-order pair: every offset point keeps the y its outward normal
\* gave it, an offset point that is not behind the one before it keeps its x,
\* and every surface point is unchanged
C16_ReconcileMovesXOnly ==
    \A h \in BuiltHalves :
        \A i \in 1..Len(h[2].points.boundary_layer) :
            /\ h[2].points.aerofoil[i].coordinates
               = RawPoints(h[1]).aerofoil_points[i].coordinates
            /\ h[2].points.boundary_layer[i].coordinates[2]
               = RawPoints(h[1]).boundary_points[i].coordinates[2]
            /\ h[2].points.boundary_layer[i].coordinates[1] # RawX(h[1], i)
               => /\ ComparedWith(h[2], i) # 0
                  /\ RawX(h[1], i)
                     < h[2].points.boundary_layer[ComparedWith(h[2], i)].coordinates[1]

\* the segments of S between two identical coordinates forward of x = 0.7,
\* which the collapse of lines 149-157 leaves alone
ForwardZeroLength(S) == {i \in ZeroLength(S) : S[i][1] <= AftThreshold}

\* the steps of aerofoil_geometry before the block of the top half exists, and
\* before the block of the bottom half exists
BeforeTop == {"top", "raised"}
BeforeBottom == {"top", "bottom", "raised"}

\* C18: a half with two consecutive identical coordinates forward of x = 0.7
\* makes the build fail: _half_aerofoil returns no block for it,
\* aerofoil_geometry does not go on, and no returned block holds a point
\* whose coordinates come from a division by a zero length
C18_ZeroLengthFails ==
    /\ pc # "idle" =>
        /\ ForwardZeroLength(<<aerofoil.leading_edge>> \o aerofoil.top) # {}
           => pc \in BeforeTop /\ "points" \notin DOMAIN top
        /\ ForwardZeroLength(aerofoil.bottom \o <<aerofoil.leading_edge>>) # {}
           => pc \in BeforeBottom /\ "points" \notin DOMAIN bottom
    /\ \A h \in BuiltHalves :
        \A p \in Held(h[2], "points") : IsFinite(p.coordinates)

\* the build of a top half with such a pair has ended in ValueError
C18_ZeroLengthRaised ==
    /\ pc = "raised"
    /\ Last(returned).raised = "ValueError"
    /\ ForwardZeroLength(<<aerofoil.leading_edge>> \o aerofoil.top) # {}

-----------------------------------------------------------------------------
(* Properties of the statement list aerofoil_geometry returns               *)

\* the lists of statements returned by the calls so far
Outputs == {returned[k].out : k \in {k \in DOMAIN returned : returned[k].raised = "None"}}

\* the place of a statement's kind in a Gmsh script that declares before use
KindRank(statement) ==
    CASE statement.stmt = "Point" -> 1
      [] statement.stmt \in {"Line", "Circle"} -> 2
      [] statement.stmt = "Curve Loop" -> 3
      [] statement.stmt = "Plane Surface" -> 4
      [] statement.stmt \in {"Physical Curve", "Physical Surface"} -> 5

\* C19: over the whole returned list, the statements are ordered by kind: all
\* Points, then all Lines and Circles, then all Curve Loops, then all Plane
\* Surfaces, then the Physical groups
C19_OrderedByKind ==
    \A out \in Outputs :
        \A i, j \in DOMAIN out :
            i < j => KindRank(out[i]) <= KindRank(out[j])

\* the counter a statement's id comes from, "None" for a Physical group
FamilyOf(statement) ==
    CASE statement.stmt = "Point" -> "Point"
      [] statement.stmt \in {"Line", "Circle", "Curve Loop"} -> "Curve"
      [] statement.stmt = "Plane Surface" -> "Surface"
      [] OTHER -> "None"

\* C20: the returned list is written in creation order: of two statements whose
\* ids come from the same family (Points; Lines, Circles and Loops; Surfaces),
\* the one with the smaller id comes first
C20_CreationOrder ==
    \A out \in Outputs :
        \A i, j \in DOMAIN out :
            (i < j /\ FamilyOf(out[i]) # "None" /\ FamilyOf(out[i]) = FamilyOf(out[j]))
            => out[i].id < out[j].id

-----------------------------------------------------------------------------
(* Properties of the Loop and Surface constructors                          *)

\* the ids of the Loops among the first k entities
LoopIdsBefore(k) ==
    {entities[j].id : j \in {j \in 1..(k - 1) : entities[j].class = "Loop"}}

\* C17: a Loop naming a curve id that no created curve has, or a Surface naming
\* a loop id that no created Loop has, fails at creation: no such entity exists
C17_UnknownReferenceFails ==
    \A k \in 1..Len(entities) :
        \A i \in 1..Len(entities[k].elements) :
            IF entities[k].class = "Loop"
            THEN Abs(entities[k].elements[i]) = line.id
            ELSE entities[k].elements[i] \in LoopIdsBefore(k)

-----------------------------------------------------------------------------
(* Properties of the aerofoil wall and of the shared boundaries             *)

\* aerofoil_geometry has returned the statements of the running call
HasReturned == pc = "returned" /\ Last(returned).raised = "None"

\* the elements of the Physical Curve "aerofoil" in the list just returned
WallElements ==
    LET out == Last(returned).out
    IN  out[CHOOSE k \in DOMAIN out :
                out[k].stmt = "Physical Curve" /\ out[k].name = "aerofoil"].elements

\* the ids of the two points a curve joins
Joins(c) == {BeginPoint(c).id, EndPoint(c).id}

\* the pairs of consecutive surface points of a half
SurfaceEdges(block) ==
    {{block.points.aerofoil[i].id, block.points.aerofoil[i + 1].id} :
        i \in 1..(Len(block.points.aerofoil) - 1)}

\* the pairs of surface points the wall joins: along the top half, across the
\* trailing edge, along the bottom half and across the leading edge
WallEdges ==
    SurfaceEdges(top)
    \cup {{Last(top.points.aerofoil).id, bottom.points.aerofoil[1].id}}
    \cup SurfaceEdges(bottom)
    \cup {{top.points.aerofoil[1].id, Last(bottom.points.aerofoil).id}}

\* C21: the Physical Curve "aerofoil" lists, each exactly once, the
\* surface-following edges of the top half, the trailing-edge closing line, the
\* surface-following edges of the bottom half and the inner leading-edge curve,
\* and nothing else: (top surface points - 1) + (bottom surface points - 1) + 2
\* curves
C21_WallGroup ==
    HasReturned =>
        /\ Len(WallElements) = (Len(top.points.aerofoil) - 1)
                               + (Len(bottom.points.aerofoil) - 1) + 2
        /\ \A i, j \in DOMAIN WallElements :
            i # j => WallElements[i] # WallElements[j]
        /\ {Joins(CurveOf(WallElements[i])) : i \in DOMAIN WallElements} = WallEdges
        /\ Cardinality(WallEdges) = Len(WallElements)

\* a call has returned whose halves have three and two surface points
C21_WallListed ==
    /\ HasReturned
    /\ Len(top.points.aerofoil) = 3
    /\ Len(bottom.points.aerofoil) = 2

\* C22: the curves of the Physical Curve "aerofoil", in the order listed, form
\* one continuous traversal of the wall in one direction: each curve ends at
\* the point where the next one begins, and the last one (the inner
\* leading-edge curve) ends where the first one begins
C22_WallTraversal ==
    HasReturned =>
        \A k \in DOMAIN WallElements :
            EndPoint(CurveOf(WallElements[k])).id
                = BeginPoint(CurveOf(WallElements[IF k = Len(WallElements)
                                                  THEN 1 ELSE k + 1])).id

\* the lines of the wake rectangles that run aft from the aerofoil: the top and
\* bottom line of each rectangle (mesh.py lines 323-330)
HorizontalWakeLines ==
    IF "curves" \notin DOMAIN trailing_edge THEN {}
    ELSE {trailing_edge.curves.all[k] : k \in {1, 3, 4, 6}}

\* width * (1 + r + ... + r^(n-1)), the widths rounded toward zero
RECURSIVE SeriesSum(_, _, _)
SeriesSum(width, r, n) ==
    IF n = 0 THEN 0 ELSE width + SeriesSum(Quot(width * r, Scale), r, n - 1)

\* C23: with no wake progression in the config, each horizontal wake line
\* carries a fitted ratio r, not None, for which the cell widths
\* wake, wake * r, ..., over the line's segment count, sum to the length of the
\* line (within one unit of rounding for each cell)
C23_WakeRatioFitted ==
    (pc # "idle" /\ config.grid.regular.progression.wake = None) =>
        \A l \in HorizontalWakeLines :
            /\ l.progression # None
            /\ Abs(SeriesSum(config.grid.regular.wake, l.progression[1], l.transfinite[1])
                   - length_of(l)) <= l.transfinite[1]

\* the ids a loop references, signs dropped
Referenced(l) == {Abs(l.elements[k]) : k \in DOMAIN l.elements}

\* C24: blocks share their boundaries by identity.  The leading-edge loop
\* references the first radial Line of the top half and the last radial Line of
\* the bottom half, the top wake rectangle the last radial Line of the top
\* half, the bottom wake rectangle the first radial Line of the bottom half;
\* and no two distinct Lines or Circles of the output join the same two Points
C24_SharedByIdentity ==
    HasReturned =>
        /\ top.curves.normals[1].id \in Referenced(leading_edge.loops.all[1])
        /\ Last(bottom.curves.normals).id \in Referenced(leading_edge.loops.all[1])
        /\ Last(top.curves.normals).id \in Referenced(trailing_edge.loops.all[1])
        /\ bottom.curves.normals[1].id \in Referenced(trailing_edge.loops.all[2])
        /\ \A c, d \in InBlocks("curves") : c.id # d.id => Joins(c) # Joins(d)

\* a call has returned whose halves have at least two surface points each, the
\* top half three
C24_BlocksJoined ==
    /\ HasReturned
    /\ Len(top.points.aerofoil) = 3
    /\ Len(bottom.points.aerofoil) >= 2
    /\ Cardinality(InBlocks("curves")) >= 20

\* C25: in a block _half_aerofoil returns, the segment count of each
\* surface-following edge is max(2, floor(L / width) + 1) for L the length of
\* that edge itself, the distance between its two surface points
C25_CountFromSurfaceEdge ==
    \A h \in BuiltHalves :
        \A i \in DOMAIN h[2].curves.aerofoil :
            h[2].curves.aerofoil[i].transfinite
                = Some(num_transfinite_of(length_of(h[2].curves.aerofoil[i]),
                                          config.grid.regular.width))

\* the coordinates in the direction of ascending x
Ascending(S) == IF S[1][1] > S[Len(S)][1] THEN Reverse(S) ELSE S

\* C26: of the coordinates _half_aerofoil keeps, read in the direction of
\* ascending x, no two consecutive ones have the forward one aft of x = 0.7
\* and x less than 1e-3 apart, also where a removal has brought together two
\* coordinates that were not neighbours before
C26_NoClosePairKept ==
    \A S \in Halves :
        Len(S) >= 2 =>
            \A i \in 1..(Len(preprocess(S)) - 1) :
                ~near_duplicate(Ascending(preprocess(S))[i],
                                Ascending(preprocess(S))[i + 1])

\* the loops that bound the structured (transfinite) surfaces built so far
StructuredLoops ==
    {LoopOf(s.elements[1]) : s \in {s \in InBlocks("surfaces") : s.transfinite}}

\* the signed references of a loop
SignedRefs(l) == {l.elements[k] : k \in DOMAIN l.elements}

\* C27: the structured surfaces all have the same orientation: a curve that
\* the loops of two structured surfaces reference is referenced with opposite
\* signs by the two
C27_SharedEdgesOpposite ==
    \A l, m \in StructuredLoops :
        l.id # m.id =>
            \A ref \in SignedRefs(l) : ref \notin SignedRefs(m)

\* the kinds of statement that declare what a statement of a kind refers to
DeclaringKinds(stmt) ==
    CASE stmt \in {"Line", "Circle"} -> {"Point"}
      [] stmt \in {"Curve Loop", "Physical Curve"} -> {"Line", "Circle"}
      [] stmt = "Plane Surface" -> {"Curve Loop"}
      [] stmt = "Physical Surface" -> {"Plane Surface"}
      [] OTHER -> {}

\* the ids a statement refers to
RefersTo(statement) ==
    CASE statement.stmt = "Line" -> {statement.begin, statement.end}
      [] statement.stmt = "Circle" -> {statement.begin, statement.center, statement.end}
      [] statement.stmt = "Point" -> {}
      [] OTHER -> {Abs(statement.elements[k]) : k \in DOMAIN statement.elements}

\* the positions in out of the statements that declare id for statement j
Declarations(out, j, id) ==
    {i \in DOMAIN out : out[i].stmt \in DeclaringKinds(out[j].stmt) /\ out[i].id = id}

\* C28: in the list a call returns every entity a statement refers to (the
\* Points of a Line or Circle, the curves of a Curve Loop or Physical Curve, the
\* loops of a Plane Surface, the surfaces of a Physical Surface) is declared by
\* exactly one statement, at an earlier position
C28_DeclaredBeforeUse ==
    HasReturned =>
        \A j \in DOMAIN Last(returned).out :
            \A id \in RefersTo(Last(returned).out[j]) :
                LET declared == Declarations(Last(returned).out, j, id)
                IN  /\ Cardinality(declared) = 1
                    /\ \A i \in declared : i < j

\* a list has been returned that holds statements of every kind
C28_EveryKindWritten ==
    \E out \in Outputs :
        {out[j].stmt : j \in DOMAIN out}
            = {"Point", "Line", "Circle", "Curve Loop", "Plane Surface",
               "Physical Curve", "Physical Surface"}

\* C29: the collapse loop ends on every half of at least two coordinates, and
\* the coordinate at the trailing-edge end of the half, the last one in the
\* direction of ascending x, is never removed: it is still the last of the
\* kept coordinates in that direction
C29_TrailingEndKept ==
    \A S \in Halves :
        Len(S) >= 2 =>
            /\ Len(preprocess(S)) <= Len(S)
            /\ Last(Ascending(preprocess(S))) = Last(Ascending(S))

-----------------------------------------------------------------------------
(* Properties of Aerofoil.load_from_gnu                                      *)

\* C30: after load_from_gnu has read a file of a top section and a bottom
\* section, both from the leading to the trailing edge, trailing_edge has the
\* x of the last top point and, as y, the mean of the y of the last top point
\* and the y of the first element of the stored bottom half, the bottom point
\* at the trailing edge
C30_TrailingEdgeMean ==
    aerofoil.trailing_edge # None =>
        aerofoil.trailing_edge
            = <<Last(aerofoil.top)[1],
                Quot(Last(aerofoil.top)[2] + aerofoil.bottom[1][2], 2)>>

====
